---- MODULE Spec2Model ----
(***************************************************************************)
(* Model of the habit tracker: the useHabits hook (habit list, mutations,  *)
(* statistics) and the HabitGraph calendar grid.                           *)
(*                                                                         *)
(* Time.  The source measures time in milliseconds and a day is            *)
(* 1000*60*60*24 of them.  The model's clock counts ticks and a day is     *)
(* DayLen ticks.  The local time zone is a fixed offset tz (in ticks) from *)
(* UTC: local time = UTC + tz.  Daylight-saving changes are not modelled.  *)
(*                                                                         *)
(* Dates.  A 'YYYY-MM-DD' string is represented by its day number (days    *)
(* since the epoch); BadDate stands for a string that does not parse, and  *)
(* NaN for the time value of an Invalid Date.                              *)
(***************************************************************************)
EXTENDS Integers, Sequences, FiniteSets, TLC

VARIABLES
    habits,      \* useHabits: the habits state (a sequence of Habit records)
    storage,     \* localStorage[HABITS_STORAGE_KEY], the persisted list
    now,         \* the wall clock, Date.now(), in ticks
    tz,          \* offset of the local time zone from UTC, in ticks
    graphToday,  \* per habit: local day of `today` captured by graphData's useMemo
    cardToday,   \* HabitCard: the `today` string computed at the last render
    hook,        \* useHabits: isMounted, isLoading, the 100 ms load timer
    closure,     \* useHabits: the `habits` the handlers of the last render close over
    settingsHook,     \* per useSettings instance: settings, isLoading, pending effect
    settingsStorage,  \* localStorage[SETTINGS_KEY]
    hover,       \* HabitGraph: tooltip, hoverTimeoutRef, the browser's pending timers
    dialog       \* HabitCard: editDialogOpen, selectedDate, selectedValue, selectedIsCompleted

vars == <<habits, storage, now, tz, graphToday, cardToday,
          hook, closure, settingsHook, settingsStorage, hover, dialog>>

----------------------------------------------------------------------------
(* Bounds of the model *)

DayLen == 2          \* ticks per day (the clock's resolution)
StartDay == 10       \* the day on which the clock starts
MaxDays == 2         \* the clock stops after this many days
MaxHabits == 1       \* habits in the list
MaxHist == 3         \* completed dates / entries per habit
MaxBack == 2         \* grid cells a click can hit: the last MaxBack+1 days
DaysBack == 2        \* daysBack of addRandomEntries (364 in the source)

Unit == 2            \* value and target 1 of the source, in model units

TimeZones == {-1, 0, 1}
Targets == {0, 10}       \* 0 stands for a missing target (undefined)
Values == {-3, 0, 1, 12} \* values a user can type (the inputs step by 0.1)

----------------------------------------------------------------------------
(* Values.  The number inputs take fractions (step 0.1), so a value or a   *)
(* target v of the source is kept as the integer v * Unit.                 *)
(*                                                                         *)
(* Dates and times *)

NaN == -1000000
BadDate == -1000

IsNaN(x) == x = NaN

\* new Date(dateString).getTime(): a date-only ISO string is UTC midnight
ParseDate(d) == IF d = BadDate THEN NaN ELSE d * DayLen

\* date.toISOString().split('T')[0]: the UTC calendar day of a time
ISODate(t) == t \div DayLen

\* format(date, 'yyyy-MM-dd'), getDate(): the local calendar day of a time
LocalDay(t, z) == (t + z) \div DayLen

\* date.setHours(0, 0, 0, 0): local midnight of the time's local day
SetHoursZero(t, z) == IF IsNaN(t) THEN NaN ELSE LocalDay(t, z) * DayLen - z

\* a - b on time values
Minus(a, b) == IF IsNaN(a) \/ IsNaN(b) THEN NaN ELSE a - b

\* Math.floor(x / (1000*60*60*24))
FloorDays(x) == IF IsNaN(x) THEN NaN ELSE x \div DayLen

\* Math.ceil(x / (1000*60*60*24))
CeilDays(x) == IF IsNaN(x) THEN NaN ELSE -((-x) \div DayLen)

Max(a, b) == IF a >= b THEN a ELSE b

----------------------------------------------------------------------------
(* Array.prototype.sort on Date objects.  The comparator subtracts time    *)
(* values; a NaN result counts as "equal" (ECMAScript SortCompare), so an  *)
(* Invalid Date stays where the stable insertion put it.                   *)

\* comparator(a, b): (a, b) => b.getTime() - a.getTime() when desc,
\* (a, b) => a.getTime() - b.getTime() otherwise
Comparator(a, b, desc) == IF desc THEN Minus(b, a) ELSE Minus(a, b)

RECURSIVE InsertSorted(_, _, _)
InsertSorted(s, x, desc) ==
    IF s = <<>> THEN <<x>>
    ELSE LET y == s[Len(s)]
             c == Comparator(y, x, desc)
         IN  IF ~IsNaN(c) /\ c > 0
             THEN Append(InsertSorted(SubSeq(s, 1, Len(s) - 1), x, desc), y)
             ELSE Append(s, x)

RECURSIVE SortDates(_, _)
SortDates(s, desc) ==
    IF s = <<>> THEN <<>>
    ELSE InsertSorted(SortDates(SubSeq(s, 1, Len(s) - 1), desc), s[Len(s)], desc)

\* .map(date => new Date(date))
RECURSIVE MapParse(_)
MapParse(s) ==
    IF s = <<>> THEN <<>> ELSE <<ParseDate(Head(s))>> \o MapParse(Tail(s))

RECURSIVE MapEntryDate(_)
MapEntryDate(es) ==
    IF es = <<>> THEN <<>> ELSE <<ParseDate(Head(es).date)>> \o MapEntryDate(Tail(es))

\* habit.target || 1
TargetOrOne(habit) == IF habit.target = 0 THEN Unit ELSE habit.target

\* mutant: the filter on the target dropped
MeetsTargetUnfiltered(habit) == habit.entries

\* habit.entries.filter(entry => entry.value >= (habit.target || 1))
MeetsTarget(habit) == SelectSeq(habit.entries, LAMBDA e : e.value >= TargetOrOne(habit))

----------------------------------------------------------------------------
(* getHabitStreak *)

\* the for loop of getHabitStreak from index i (0-based): the number of
\* leading dates equal to the expected local midnight
RECURSIVE StreakLoop(_, _, _, _)
StreakLoop(dates, today, daysDiff, i) ==
    IF i >= Len(dates) THEN 0
    ELSE LET currentDate == dates[i + 1]
             \* expectedDate.setDate(today.getDate() - (daysDiff + i)); setHours(0,0,0,0)
             expectedDate == IF IsNaN(daysDiff) THEN NaN
                             ELSE today - (daysDiff + i) * DayLen
         IN  IF ~IsNaN(currentDate) /\ ~IsNaN(expectedDate) /\ currentDate = expectedDate
             THEN 1 + StreakLoop(dates, today, daysDiff, i + 1)
             ELSE 0

\* the body shared by both branches of getHabitStreak, from `let streak = 0`:
\* sortedDates is non-empty and sorted most recent first
StreakOfSorted(sortedDates, clock, z) ==
    LET today == SetHoursZero(clock, z)
        mostRecentDate == SetHoursZero(sortedDates[1], z)
        \* setHours mutates sortedDates[0] in place; the other dates stay as parsed
        dates == [sortedDates EXCEPT ![1] = mostRecentDate]
        daysDiff == FloorDays(Minus(today, mostRecentDate))
    IN  IF ~IsNaN(daysDiff) /\ daysDiff > 1 THEN 0
        ELSE StreakLoop(dates, today, daysDiff, 0)

StreakCheckbox(habit, clock, z) ==
    IF Len(habit.completedDates) = 0 THEN 0
    ELSE StreakOfSorted(SortDates(MapParse(habit.completedDates), TRUE), clock, z)

StreakNumber(habit, clock, z) ==
    IF Len(habit.entries) = 0 THEN 0
    ELSE LET sortedEntries == SortDates(MapEntryDate(MeetsTarget(habit)), TRUE)
         IN  IF Len(sortedEntries) = 0 THEN 0
             ELSE StreakOfSorted(sortedEntries, clock, z)

getHabitStreak(habit, clock, z) ==
    IF habit.type = "checkbox" THEN StreakCheckbox(habit, clock, z)
    ELSE StreakNumber(habit, clock, z)

----------------------------------------------------------------------------
(* getLongestStreak *)

\* mutant: every gap of a day or more extends the running streak
RECURSIVE LongestLoopAnyGap(_, _, _, _)
LongestLoopAnyGap(dates, i, longestStreak, currentStreak) ==
    IF i >= Len(dates) THEN longestStreak
    ELSE LET daysDiff == FloorDays(Minus(dates[i + 1], dates[i]))
         IN  IF ~IsNaN(daysDiff) /\ daysDiff >= 1
             THEN LongestLoopAnyGap(dates, i + 1, Max(longestStreak, currentStreak + 1),
                                    currentStreak + 1)
             ELSE LongestLoopAnyGap(dates, i + 1, longestStreak, 1)

\* the for loop of getLongestStreak from index i (1-based position of
\* currentDate is i + 1), carrying longestStreak and currentStreak
RECURSIVE LongestLoop(_, _, _, _)
LongestLoop(dates, i, longestStreak, currentStreak) ==
    IF i >= Len(dates) THEN longestStreak
    ELSE LET prevDate == dates[i]
             currentDate == dates[i + 1]
             daysDiff == FloorDays(Minus(currentDate, prevDate))
         IN  IF ~IsNaN(daysDiff) /\ daysDiff = 1
             THEN LongestLoop(dates, i + 1, Max(longestStreak, currentStreak + 1),
                              currentStreak + 1)
             ELSE LongestLoop(dates, i + 1, longestStreak, 1)

\* mutant: longestStreak and currentStreak initialised to 0 instead of 1
LongestOfSortedFromZero(sortedDates) == LongestLoop(sortedDates, 1, 0, 0)

LongestOfSorted(sortedDates) == LongestLoop(sortedDates, 1, 1, 1)

\* mutant: the early return for an empty history dropped
LongestCheckboxNoGuard(habit) ==
    LongestOfSorted(SortDates(MapParse(habit.completedDates), FALSE))

LongestCheckbox(habit) ==
    IF Len(habit.completedDates) = 0 THEN 0
    ELSE LongestOfSorted(SortDates(MapParse(habit.completedDates), FALSE))

LongestNumber(habit) ==
    IF Len(habit.entries) = 0 THEN 0
    ELSE LET successfulDates == SortDates(MapEntryDate(MeetsTarget(habit)), FALSE)
         IN  IF Len(successfulDates) = 0 THEN 0
             ELSE LongestOfSorted(successfulDates)

getLongestStreak(habit) ==
    IF habit.type = "checkbox" THEN LongestCheckbox(habit) ELSE LongestNumber(habit)

----------------------------------------------------------------------------
(* getHabitAverage, getHabitTotal, getHabitStandardDeviation.  A quotient  *)
(* is kept as the pair [num, den] of a fraction with den > 0.              *)

RECURSIVE SumValues(_)
SumValues(es) == IF es = <<>> THEN 0 ELSE Head(es).value + SumValues(Tail(es))

getHabitAverage(habit, clock) ==
    IF habit.type = "checkbox"
    THEN LET totalDays == Max(1, CeilDays(clock - habit.createdAt))
         IN  [num |-> Len(habit.completedDates), den |-> totalDays]
    ELSE IF Len(habit.entries) = 0 THEN [num |-> 0, den |-> 1]
         ELSE [num |-> SumValues(habit.entries), den |-> Len(habit.entries)]

getHabitTotal(habit) ==
    IF habit.type = "checkbox" THEN Len(habit.completedDates)
    ELSE IF Len(habit.entries) = 0 THEN 0
         ELSE SumValues(habit.entries)

\* sum of (n*value - total)^2 over the entries: n^2 times the sum of the
\* squared deviations from the average total/n
RECURSIVE SumSquares(_, _, _)
SumSquares(es, n, total) ==
    IF es = <<>> THEN 0
    ELSE (n * Head(es).value - total) * (n * Head(es).value - total)
         + SumSquares(Tail(es), n, total)

\* mutant: the sum of squares divided by N - 1
VarianceOfSample(habit) ==
    LET n == Len(habit.entries)
        average == getHabitAverage(habit, 0)
    IN  [num |-> SumSquares(habit.entries, n, average.num), den |-> n * n * (n - 1)]

\* the variance under the square root of getHabitStandardDeviation
Variance(habit) ==
    LET n == Len(habit.entries)
        average == getHabitAverage(habit, 0)
    IN  [num |-> SumSquares(habit.entries, n, average.num), den |-> n * n * n]

\* the integer part of Math.sqrt(n)
ISqrt(n) == CHOOSE r \in 0..n : r * r <= n /\ (r + 1) * (r + 1) > n

getHabitStandardDeviation(habit) ==
    IF habit.type = "checkbox" THEN [num |-> 0, den |-> 1]
    ELSE IF Len(habit.entries) < 2 THEN [num |-> 0, den |-> 1]
         ELSE LET v == Variance(habit)
              \* Math.sqrt(variance), in hundredths, rounded down
              IN  [num |-> ISqrt((v.num * 10000) \div v.den), den |-> 100]

----------------------------------------------------------------------------
(* isHabitCompletedToday, getTodayEntry: "today" is the UTC date string    *)

HasEntry(habit, date) == \E k \in 1..Len(habit.entries) : habit.entries[k].date = date

\* habit.entries.find(entry => entry.date === date): the first match
FindEntry(habit, date) ==
    habit.entries[CHOOSE k \in 1..Len(habit.entries) :
                      /\ habit.entries[k].date = date
                      /\ \A j \in 1..(k - 1) : habit.entries[j].date # date]

Includes(s, x) == \E k \in 1..Len(s) : s[k] = x

isHabitCompletedToday(habit, clock) ==
    LET today == ISODate(clock)
    IN  IF habit.type = "checkbox" THEN Includes(habit.completedDates, today)
        ELSE IF HasEntry(habit, today)
             THEN FindEntry(habit, today).value >= TargetOrOne(habit)
             ELSE FALSE

getTodayEntry(habit, clock) ==
    IF habit.type # "number" THEN 0
    ELSE LET today == ISODate(clock)
         IN  IF HasEntry(habit, today) THEN FindEntry(habit, today).value ELSE 0

----------------------------------------------------------------------------
(* HabitGraph: graphData, the 52 x 7 grid.  A Date of the grid is kept as  *)
(* its local calendar day; dateString is the day number that              *)
(* format(currentDate, 'yyyy-MM-dd') writes.                               *)

GridDays == 364
GridWeeks == 52
WeekLen == 7

Null == [null |-> TRUE]

\* isSameDay(new Date(completedDate), currentDate): same local calendar day
IsSameDay(completedDate, currentDay, z) ==
    /\ ~IsNaN(ParseDate(completedDate))
    /\ LocalDay(ParseDate(completedDate), z) = currentDay

\* mutant: startDate one day too early (today.getDate() - 364)
DayDataFrom364(habit, todayDay, i, z) ==
    LET currentDay == todayDay - 364 + i
    IN  [date |-> currentDay, dateString |-> currentDay,
         isCompleted |-> FALSE, value |-> 0,
         isWithinRange |-> currentDay <= todayDay,
         dayOfWeek |-> (currentDay + 4) % 7]

\* one element of allDays: the day i days after startDate
DayData(habit, todayDay, i, z) ==
    LET startDay == todayDay - 363
        currentDay == startDay + i
        dateString == currentDay
        value == IF habit.type = "checkbox" THEN 0
                 ELSE IF HasEntry(habit, dateString)
                      THEN FindEntry(habit, dateString).value ELSE 0
        isCompleted ==
            IF habit.type = "checkbox"
            THEN \E k \in 1..Len(habit.completedDates) :
                     IsSameDay(habit.completedDates[k], currentDay, z)
            ELSE value >= TargetOrOne(habit)
    IN  [date |-> currentDay, dateString |-> dateString,
         isCompleted |-> isCompleted, value |-> value,
         isWithinRange |-> currentDay <= todayDay,
         dayOfWeek |-> (currentDay + 4) % 7]

\* mutant: the cells filled row by row (cellIndex = day * 52 + week)
graphDataRowMajor(habit, todayDay, z) ==
    [week \in 0..(GridWeeks - 1) |->
        [day \in 0..(WeekLen - 1) |->
            DayData(habit, todayDay, day * GridWeeks + week, z)]]

\* the grid for `today` on local day todayDay: weeks (columns) of 7 cells
graphData(habit, todayDay, z) ==
    LET totalCells == GridWeeks * WeekLen
        emptyCellsAtStart == totalCells - GridDays
    IN  [week \in 0..(GridWeeks - 1) |->
            [day \in 0..(WeekLen - 1) |->
                LET cellIndex == week * WeekLen + day
                    dayIndex == cellIndex - emptyCellsAtStart
                IN  IF dayIndex >= 0 /\ dayIndex < GridDays
                    THEN DayData(habit, todayDay, dayIndex, z)
                    ELSE Null]]

\* value / target >= n / d, for d > 0
RatioAtLeast(value, target, n, d) ==
    IF target > 0 THEN value * d >= n * target ELSE value * d <= n * target

\* mutant: the test for a value of 0 dropped
getIntensityClassNoZero(habit, isCompleted, value, isWithinRange) ==
    IF ~isWithinRange THEN "bg-gray-100"
    ELSE IF habit.type = "checkbox"
         THEN IF isCompleted THEN "bg-green-500" ELSE "bg-gray-200"
         ELSE IF RatioAtLeast(value, TargetOrOne(habit), 2, 1) THEN "bg-green-600"
         ELSE IF RatioAtLeast(value, TargetOrOne(habit), 3, 2) THEN "bg-green-500"
         ELSE IF RatioAtLeast(value, TargetOrOne(habit), 1, 1) THEN "bg-green-400"
         ELSE IF RatioAtLeast(value, TargetOrOne(habit), 1, 2) THEN "bg-green-300"
         ELSE "bg-green-200"

\* getIntensityClass: the (light theme) colour class of a cell.  intensity =
\* Math.min(value / target, 2) is compared with 2, 1.5, 1 and 0.5; the cap
\* at 2 changes none of the comparisons
getIntensityClass(habit, isCompleted, value, isWithinRange) ==
    IF ~isWithinRange THEN "bg-gray-100"
    ELSE IF habit.type = "checkbox"
         THEN IF isCompleted THEN "bg-green-500" ELSE "bg-gray-200"
         ELSE LET target == TargetOrOne(habit)
              IN  IF value = 0 THEN "bg-gray-200"
                  ELSE IF RatioAtLeast(value, target, 2, 1) THEN "bg-green-600"
                  ELSE IF RatioAtLeast(value, target, 3, 2) THEN "bg-green-500"
                  ELSE IF RatioAtLeast(value, target, 1, 1) THEN "bg-green-400"
                  ELSE IF RatioAtLeast(value, target, 1, 2) THEN "bg-green-300"
                  ELSE "bg-green-200"

\* HabitCard.getProgressPercentage, as a fraction: todayValue and
\* isCompletedToday are read from the hook at the render
getProgressPercentage(habit, clock) ==
    LET todayValue == getTodayEntry(habit, clock)
    IN  IF habit.type = "number" /\ habit.target # 0
        THEN \* Math.min((todayValue / habit.target) * 100, 100)
             IF RatioAtLeast(todayValue, habit.target, 1, 1) /\ habit.target > 0
             THEN [num |-> 100, den |-> 1]
             ELSE [num |-> todayValue * 100, den |-> habit.target]
        ELSE IF isHabitCompletedToday(habit, clock) THEN [num |-> 100, den |-> 1]
             ELSE [num |-> 0, den |-> 1]

\* date.getFullYear() of a local calendar day: the grids of the model lie in
\* 1969 and 1970, neither a leap year
GetFullYear(day) == 1970 + (day \div 365)

\* the days of a common year before each month
DaysBeforeMonth == <<0, 31, 59, 90, 120, 151, 181, 212, 243, 273, 304, 334, 365>>

\* date.getMonth() of a local calendar day: 0 = January
GetMonth(day) ==
    CHOOSE m \in 0..11 :
        /\ DaysBeforeMonth[m + 1] <= day % 365
        /\ day % 365 < DaysBeforeMonth[m + 2]

\* week.find(day => day !== null): the row of the first cell that is not
\* null, or -1
FirstValidRow(week) ==
    IF \A row \in DOMAIN week : week[row] = Null THEN -1
    ELSE CHOOSE row \in DOMAIN week :
             week[row] # Null /\ \A r \in DOMAIN week : r < row => week[r] = Null

\* the forEach of monthLabels from column weekIndex on: months is the list
\* so far, currentMonth the month of the last label
RECURSIVE MonthLoop(_, _, _, _)
MonthLoop(grid, weekIndex, months, currentMonth) ==
    IF weekIndex >= Cardinality(DOMAIN grid) THEN months
    ELSE IF FirstValidRow(grid[weekIndex]) = -1
         THEN MonthLoop(grid, weekIndex + 1, months, currentMonth)
         ELSE LET firstValidDay == grid[weekIndex][FirstValidRow(grid[weekIndex])]
                  month == GetMonth(firstValidDay.date)
                  closed == IF Len(months) > 0
                            THEN [months EXCEPT ![Len(months)].weekIndex = weekIndex - 1]
                            ELSE months
              IN  IF month # currentMonth
                  THEN MonthLoop(grid, weekIndex + 1,
                                 Append(closed, [name |-> month, weekIndex |-> weekIndex,
                                                 year |-> GetFullYear(firstValidDay.date)]),
                                 month)
                  ELSE MonthLoop(grid, weekIndex + 1, months, currentMonth)

\* monthLabels: the labels drawn above the grid, each at left = weekIndex *
\* weekWidth; name is kept as the number of the month
monthLabels(grid) ==
    IF Cardinality(DOMAIN grid) = 0 THEN <<>>
    ELSE LET months == MonthLoop(grid, 0, <<>>, -1)
         IN  IF Len(months) > 0
             THEN [months EXCEPT ![Len(months)].weekIndex = Cardinality(DOMAIN grid) - 1]
             ELSE months

\* date.getDay() of a local calendar day: 0 = Sunday; day 0 (1970-01-01) is
\* a Thursday
GetDay(day) == (day + 4) % 7

\* getDayRow(targetDay), with todayDayOfWeek the getDay() of the `today` of
\* the render: the row labelled with the weekday targetDay
getDayRow(targetDay, todayDayOfWeek) == (13 + targetDay - todayDayOfWeek) % 7

\* mutant: the test of isWithinRange dropped
handleCellClickAnyRange(day) ==
    IF day # Null
    THEN [date |-> day.dateString, value |-> day.value, isCompleted |-> day.isCompleted]
    ELSE Null

\* HabitGraph.handleCellClick: the (date, value, isCompleted) passed to
\* onCellClick, or Null when the click produces no event
handleCellClick(day) ==
    IF day # Null /\ day.isWithinRange
    THEN [date |-> day.dateString, value |-> day.value, isCompleted |-> day.isCompleted]
    ELSE Null

----------------------------------------------------------------------------
(* useHabits: the mutations, as functions from the habits snapshot to the  *)
(* list handed to saveHabits                                               *)

\* indexOf / splice(dateIndex, 1): drop the first occurrence of x
RemoveAt(s, k) == SubSeq(s, 1, k - 1) \o SubSeq(s, k + 1, Len(s))

IndexOf(s, x) ==
    IF Includes(s, x)
    THEN CHOOSE k \in 1..Len(s) : s[k] = x /\ \A j \in 1..(k - 1) : s[j] # x
    ELSE 0

NewHabit(clock, type, target) ==
    [id |-> clock, type |-> type, target |-> target, createdAt |-> clock,
     completedDates |-> <<>>, entries |-> <<>>]

addHabit(hs, clock, type, target) == Append(hs, NewHabit(clock, type, target))

\* habits.filter(habit => habit.id !== habitId)
deleteHabit(hs, habitId) == SelectSeq(hs, LAMBDA h : h.id # habitId)

\* mutant: splice(-1, 1) in place of splice(dateIndex, 1)
ToggleDateDropLast(completedDates, date) ==
    IF \E k \in 1..Len(completedDates) : completedDates[k] = date
    THEN SubSeq(completedDates, 1, Len(completedDates) - 1)
    ELSE Append(completedDates, date)

\* mutant: the test of the habit's type dropped
toggleHabitCompletionAnyType(hs, habitId, date) ==
    [k \in 1..Len(hs) |->
        IF hs[k].id = habitId
        THEN [hs[k] EXCEPT !.completedDates =
                 IF \E j \in 1..Len(@) : @[j] = date
                 THEN SelectSeq(@, LAMBDA d : d # date)
                 ELSE Append(@, date)]
        ELSE hs[k]]

\* mutant: the date pushed without looking it up first
ToggleDateAlwaysPush(completedDates, date) == Append(completedDates, date)

ToggleDate(completedDates, date) ==
    LET dateIndex == IndexOf(completedDates, date)
    IN  IF dateIndex > 0 THEN RemoveAt(completedDates, dateIndex)
        ELSE Append(completedDates, date)

toggleHabitCompletion(hs, habitId, date) ==
    [k \in 1..Len(hs) |->
        IF hs[k].id = habitId /\ hs[k].type = "checkbox"
        THEN [hs[k] EXCEPT !.completedDates = ToggleDate(@, date)]
        ELSE hs[k]]

\* mutant: the value stored whatever its sign
UpdateEntriesStoreAny(entries, date, value) ==
    IF \E k \in 1..Len(entries) : entries[k].date = date
    THEN [k \in 1..Len(entries) |->
             IF entries[k].date = date THEN [date |-> date, value |-> value]
             ELSE entries[k]]
    ELSE Append(entries, [date |-> date, value |-> value])

UpdateEntries(entries, date, value) ==
    LET existingEntryIndex ==
            IF \E k \in 1..Len(entries) : entries[k].date = date
            THEN CHOOSE k \in 1..Len(entries) :
                     /\ entries[k].date = date
                     /\ \A j \in 1..(k - 1) : entries[j].date # date
            ELSE 0
    IN  IF existingEntryIndex > 0
        THEN IF value > 0
             THEN [entries EXCEPT ![existingEntryIndex] = [date |-> date, value |-> value]]
             ELSE RemoveAt(entries, existingEntryIndex)
        ELSE IF value > 0 THEN Append(entries, [date |-> date, value |-> value])
             ELSE entries

updateHabitEntry(hs, habitId, date, value) ==
    [k \in 1..Len(hs) |->
        IF hs[k].id = habitId /\ hs[k].type = "number"
        THEN [hs[k] EXCEPT !.entries = UpdateEntries(@, date, value)]
        ELSE hs[k]]

\* the order of 'YYYY-MM-DD' strings under sort() and localeCompare: by
\* day; a string that is no date (letters) sorts after every date
StringKey(d) == IF d = BadDate THEN 1000000 ELSE d

RECURSIVE InsertString(_, _)
InsertString(s, x) ==
    IF s = <<>> THEN <<x>>
    ELSE IF StringKey(s[Len(s)]) > StringKey(x)
         THEN Append(InsertString(SubSeq(s, 1, Len(s) - 1), x), s[Len(s)])
         ELSE Append(s, x)

\* [...].sort() on date strings
RECURSIVE SortStrings(_)
SortStrings(s) ==
    IF s = <<>> THEN <<>>
    ELSE InsertString(SortStrings(SubSeq(s, 1, Len(s) - 1)), s[Len(s)])

RECURSIVE InsertEntry(_, _)
InsertEntry(s, e) ==
    IF s = <<>> THEN <<e>>
    ELSE IF StringKey(s[Len(s)].date) > StringKey(e.date)
         THEN Append(InsertEntry(SubSeq(s, 1, Len(s) - 1), e), s[Len(s)])
         ELSE Append(s, e)

\* [...].sort((a, b) => a.date.localeCompare(b.date))
RECURSIVE SortEntries(_)
SortEntries(s) ==
    IF s = <<>> THEN <<>>
    ELSE InsertEntry(SortEntries(SubSeq(s, 1, Len(s) - 1)), s[Len(s)])

\* the loop of addRandomEntries for a checkbox habit, from day i: pick is
\* the set of days on which Math.random() < completionRate
RECURSIVE RandomDates(_, _, _, _, _)
RandomDates(h, clock, daysBack, pick, i) ==
    IF i >= daysBack THEN <<>>
    ELSE LET dateString == ISODate(clock - i * DayLen)
             rest == RandomDates(h, clock, daysBack, pick, i + 1)
         IN  IF Includes(h.completedDates, dateString) THEN rest
             ELSE IF i \in pick THEN <<dateString>> \o rest
             ELSE rest

\* the loop for a number habit: pick[i] is the rounded random value of day
\* i, or 0 when Math.random() > 0.2 fails and the day is skipped
RECURSIVE RandomEntries(_, _, _, _, _)
RandomEntries(h, clock, daysBack, pick, i) ==
    IF i >= daysBack THEN <<>>
    ELSE LET dateString == ISODate(clock - i * DayLen)
             rest == RandomEntries(h, clock, daysBack, pick, i + 1)
         IN  IF HasEntry(h, dateString) THEN rest
             ELSE IF pick[i] > 0
                  THEN <<[date |-> dateString, value |-> pick[i]]>> \o rest
             ELSE rest

\* values Math.round(randomValue * 100) / 100 can take: between 30% and
\* 170% of the target
RandomValues(h) ==
    {v \in Values \ {0} :
        10 * v >= 3 * TargetOrOne(h) /\ 10 * v <= 17 * TargetOrOne(h)}

addRandomEntries(hs, habitId, clock, daysBack, pickDates, pickValues) ==
    [k \in 1..Len(hs) |->
        IF hs[k].id # habitId THEN hs[k]
        ELSE IF hs[k].type = "checkbox"
             THEN [hs[k] EXCEPT !.completedDates =
                      SortStrings(@ \o RandomDates(hs[k], clock, daysBack, pickDates, 0))]
             ELSE [hs[k] EXCEPT !.entries =
                      SortEntries(@ \o RandomEntries(hs[k], clock, daysBack, pickValues, 0))]]

----------------------------------------------------------------------------
(* The state machine *)

\* JSON.stringify(newHabits): a property whose value is undefined (a missing
\* target) is left out of the text
JSONStringify(hs) ==
    [k \in 1..Len(hs) |->
        IF hs[k].target = 0
        THEN [id |-> hs[k].id, type |-> hs[k].type, createdAt |-> hs[k].createdAt,
              completedDates |-> hs[k].completedDates, entries |-> hs[k].entries]
        ELSE hs[k]]

\* JSON.parse(savedHabits): a property the text leaves out reads as undefined
JSONParse(text) ==
    [k \in 1..Len(text) |->
        IF "target" \in DOMAIN text[k] THEN text[k]
        ELSE [id |-> text[k].id, type |-> text[k].type, target |-> 0,
              createdAt |-> text[k].createdAt,
              completedDates |-> text[k].completedDates, entries |-> text[k].entries]]

\* mutant: setHabits called before localStorage.setItem
saveHabitsSetFirst(mem, sto, newHabits, ok) ==
    IF ok THEN [habits |-> newHabits, storage |-> JSONStringify(newHabits)]
    ELSE [habits |-> newHabits, storage |-> sto]

\* saveHabits(newHabits) on the memory mem and the storage sto: setItem, then
\* setHabits; when setItem throws (ok = FALSE) the catch only logs
saveHabits(mem, sto, newHabits, ok) ==
    IF ok THEN [habits |-> newHabits, storage |-> JSONStringify(newHabits)]
    ELSE [habits |-> mem, storage |-> sto]

\* a saveHabits(newHabits) whose write succeeds
SaveHabits(newHabits) ==
    /\ storage' = saveHabits(habits, storage, newHabits, TRUE).storage
    /\ habits' = saveHabits(habits, storage, newHabits, TRUE).habits

\* The render that follows setHabits: every HabitCard recomputes `today`;
\* a HabitGraph recomputes graphData only when one of its useMemo
\* dependencies (the habit's completedDates or entries array) was replaced.
\* changed is the set of list positions whose arrays the handler replaced.
RenderAfter(changed) ==
    /\ cardToday' = ISODate(now)
    /\ graphToday' = [k \in 1..Len(graphToday) |->
                         IF k \in changed THEN LocalDay(now, tz) ELSE graphToday[k]]

(* The page around the habit list: the useHabits lifecycle, the            *)
(* useSettings instances, the tooltip of a HabitGraph and the edit dialog  *)
(* of a HabitCard, each as it is after construction.                       *)

\* const DEFAULT_SETTINGS
DEFAULT_SETTINGS == [cellSize |-> 24, hoverDelay |-> 0, showStats |-> TRUE]

\* the components that call useSettings(): the SettingsDialog, which calls
\* updateSettings / resetSettings, and a HabitGraph, which only reads
DialogInstance == 1
GraphInstance == 2
Instances == {DialogInstance, GraphInstance}

\* useHabits: useState([]), useState(true), useState(false); no timer yet
HookConstructed ==
    [isMounted |-> FALSE, isLoading |-> TRUE, timer |-> "none", unmounted |-> FALSE]

\* useHabits after both effects and the load timer have run
HookLoaded ==
    [isMounted |-> TRUE, isLoading |-> FALSE, timer |-> "none", unmounted |-> FALSE]

\* useSettings: useState(DEFAULT_SETTINGS), useState(true).  isDefault tells
\* that the state is the DEFAULT_SETTINGS object itself (React skips a
\* setState to the identical object); effect tells that the save effect is
\* due (one of its dependencies changed); lastWrite is the outcome of the
\* instance's last localStorage.setItem
SettingsConstructed ==
    [mounted |-> FALSE, settings |-> DEFAULT_SETTINGS, isDefault |-> TRUE,
     isLoading |-> TRUE, effect |-> FALSE, lastWrite |-> "none"]

InitSettings ==
    /\ settingsHook = [i \in Instances |-> SettingsConstructed]
    /\ settingsStorage = Null

\* HabitGraph: useState({show: false, ...}), useRef(null); cell 0 stands for
\* no cell, timer 0 for null
InitHover ==
    hover = [tooltip |-> [show |-> FALSE, content |-> 0], hoverTimeoutRef |-> 0,
             timers |-> {}, nextTimer |-> 1, pointer |-> 0]

\* HabitCard: useState(false), useState(''), useState(0), useState(false)
InitDialog ==
    dialog = [editDialogOpen |-> FALSE, selectedDate |-> BadDate,
              selectedValue |-> 0, selectedIsCompleted |-> FALSE]

\* React renders the new list before the next event is handled, so the next
\* handler closes over it; the rest of the page is left as it is
RenderFlushed ==
    /\ closure' = habits'
    /\ UNCHANGED <<hook, settingsHook, settingsStorage, hover, dialog>>

\* the page once useHabits has loaded an empty storage
Init ==
    /\ habits = <<>>
    /\ storage = <<>>
    /\ tz \in TimeZones
    /\ now \in (StartDay * DayLen)..(StartDay * DayLen + DayLen - 1)
    /\ graphToday = <<>>
    /\ cardToday = ISODate(now)
    /\ hook = HookLoaded
    /\ closure = habits
    /\ InitSettings
    /\ InitHover
    /\ InitDialog

\* time passes; nothing renders
Tick ==
    /\ now < (StartDay + MaxDays) * DayLen
    /\ now' = now + 1
    /\ UNCHANGED <<habits, storage, tz, graphToday, cardToday>>
    /\ RenderFlushed

\* a HabitCard re-renders on a change of its own state (its dialog opening
\* or closing): `today` is recomputed, the memoized grid is kept
RenderCard ==
    /\ Len(habits) > 0
    /\ cardToday' = ISODate(now)
    /\ UNCHANGED <<habits, storage, now, tz, graphToday>>
    /\ RenderFlushed

\* the add-habit dialog's submit, while the list holds fewer than n habits
AddHabitUpTo(n) ==
    /\ Len(habits) < n
    /\ \E type \in {"checkbox", "number"} :
       \E target \in (IF type = "number" THEN Targets ELSE {0}) :
           SaveHabits(addHabit(habits, now, type, target))
    /\ cardToday' = ISODate(now)
    /\ graphToday' = Append(graphToday, LocalDay(now, tz))
    /\ UNCHANGED <<now, tz>>
    /\ RenderFlushed

AddHabit == AddHabitUpTo(MaxHabits)

DeleteHabit ==
    \E i \in 1..Len(habits) :
        /\ SaveHabits(deleteHabit(habits, habits[i].id))
        /\ cardToday' = ISODate(now)
        /\ LET kept == SelectSeq([k \in 1..Len(habits) |->
                                     IF habits[k].id = habits[i].id THEN Null
                                     ELSE [day |-> graphToday[k]]],
                                 LAMBDA g : g # Null)
           IN  graphToday' = [k \in 1..Len(kept) |-> kept[k].day]
        /\ UNCHANGED <<now, tz>>
        /\ RenderFlushed

Matching(habitId, type) ==
    {k \in 1..Len(habits) : habits[k].id = habitId /\ habits[k].type = type}

\* the model keeps every history within MaxHist dates or entries
WithinBounds(hs) ==
    \A k \in 1..Len(hs) : Len(hs[k].completedDates) + Len(hs[k].entries) <= MaxHist

\* HabitCard.handleToggleCompletion: today's checkbox
ToggleToday ==
    \E i \in 1..Len(habits) :
        /\ habits[i].type = "checkbox"
        /\ WithinBounds(toggleHabitCompletion(habits, habits[i].id, cardToday))
        /\ SaveHabits(toggleHabitCompletion(habits, habits[i].id, cardToday))
        /\ RenderAfter(Matching(habits[i].id, "checkbox"))
        /\ UNCHANGED <<now, tz>>
        /\ RenderFlushed

\* HabitCard.handleNumberSubmit: today's value
SubmitToday ==
    \E i \in 1..Len(habits) : \E value \in Values :
        /\ habits[i].type = "number"
        /\ WithinBounds(updateHabitEntry(habits, habits[i].id, cardToday, value))
        /\ SaveHabits(updateHabitEntry(habits, habits[i].id, cardToday, value))
        /\ RenderAfter(Matching(habits[i].id, "number"))
        /\ UNCHANGED <<now, tz>>
        /\ RenderFlushed

\* the cells of the grid a click of the model can hit: the last
\* MaxBack + 1 cells of the last column
ClickRows == (WeekLen - 1 - MaxBack)..(WeekLen - 1)

\* a click on a cell of the habit's (memoized) grid opens the edit dialog
\* for the cell's date; saving there toggles the date (checkbox) or stores
\* the typed value (number)
CellClickSave ==
    \E i \in 1..Len(habits) : \E row \in ClickRows : \E value \in Values :
        LET grid == graphData(habits[i], graphToday[i], tz)
            event == handleCellClick(grid[GridWeeks - 1][row])
        IN  /\ event # Null
            /\ IF habits[i].type = "checkbox"
               THEN /\ value = 0
                    /\ WithinBounds(toggleHabitCompletion(habits, habits[i].id, event.date))
                    /\ SaveHabits(toggleHabitCompletion(habits, habits[i].id, event.date))
                    /\ RenderAfter(Matching(habits[i].id, "checkbox"))
               ELSE /\ WithinBounds(updateHabitEntry(habits, habits[i].id, event.date, value))
                    /\ SaveHabits(updateHabitEntry(habits, habits[i].id, event.date, value))
                    /\ RenderAfter(Matching(habits[i].id, "number"))
            /\ UNCHANGED <<now, tz>>
            /\ RenderFlushed

\* the flask button: addRandomEntries(habit.id)
AddRandomEntries ==
    \E i \in 1..Len(habits) :
    \E pickDates \in SUBSET (0..(DaysBack - 1)) :
    \E pickValues \in [0..(DaysBack - 1) -> RandomValues(habits[i]) \cup {0}] :
        /\ WithinBounds(addRandomEntries(habits, habits[i].id, now, DaysBack,
                                         pickDates, pickValues))
        /\ IF habits[i].type = "checkbox"
           THEN pickValues = [k \in 0..(DaysBack - 1) |-> 0]
           ELSE pickDates = {}
        /\ SaveHabits(addRandomEntries(habits, habits[i].id, now, DaysBack,
                                       pickDates, pickValues))
        /\ RenderAfter({k \in 1..Len(habits) : habits[k].id = habits[i].id})
        /\ UNCHANGED <<now, tz>>
        /\ RenderFlushed

\* the lists a mutation of the model hands to saveHabits
Attempted ==
    {deleteHabit(habits, habits[i].id) : i \in 1..Len(habits)}
    \cup {toggleHabitCompletion(habits, habits[i].id, cardToday) : i \in 1..Len(habits)}
    \cup {updateHabitEntry(habits, habits[i].id, cardToday, value) :
              i \in 1..Len(habits), value \in Values}

\* a mutation whose localStorage.setItem throws (the quota is exceeded):
\* saveHabits logs the error, setHabits is not called and nothing renders
SaveFails ==
    \E newHabits \in Attempted :
        /\ WithinBounds(newHabits)
        /\ habits' = saveHabits(habits, storage, newHabits, FALSE).habits
        /\ storage' = saveHabits(habits, storage, newHabits, FALSE).storage
        /\ UNCHANGED <<now, tz, graphToday, cardToday>>
        /\ RenderFlushed

\* the lists the reorder dialog can save: tempHabits is a copy of habits
\* taken when the dialog opens, rearranged by moveHabitUp / moveHabitDown
Reorderings(hs) ==
    {[k \in 1..Len(hs) |-> hs[p[k]]] :
        p \in {q \in [1..Len(hs) -> 1..Len(hs)] :
                  \A j, k \in 1..Len(hs) : j # k => q[j] # q[k]}}

reorderHabits(mem, sto, reorderedHabits, ok) == saveHabits(mem, sto, reorderedHabits, ok)

\* ReorderHabitsDialog.handleSave; each HabitGraph moves with its habit
ReorderHabits ==
    /\ Len(habits) >= 2
    /\ \E p \in {q \in [1..Len(habits) -> 1..Len(habits)] :
                    \A j, k \in 1..Len(habits) : j # k => q[j] # q[k]} :
           /\ habits' = reorderHabits(habits, storage,
                                      [k \in 1..Len(habits) |-> habits[p[k]]], TRUE).habits
           /\ storage' = reorderHabits(habits, storage,
                                       [k \in 1..Len(habits) |-> habits[p[k]]], TRUE).storage
           /\ graphToday' = [k \in 1..Len(habits) |-> graphToday[p[k]]]
    /\ cardToday' = ISODate(now)
    /\ UNCHANGED <<now, tz>>
    /\ RenderFlushed

Next ==
    \/ Tick
    \/ RenderCard
    \/ AddHabit
    \/ DeleteHabit
    \/ ToggleToday
    \/ SubmitToday
    \/ CellClickSave
    \/ AddRandomEntries
    \/ SaveFails

Spec == Init /\ [][Next]_vars

\* the habits reached by creating habits and toggling dates alone
NextToggle ==
    \/ Tick
    \/ AddHabit
    \/ ToggleToday
    \/ CellClickSave

SpecToggle == Init /\ [][NextToggle]_vars

\* a list of up to MaxListHabits habits: created, deleted, reordered, and
\* today's checkbox toggled or today's value submitted
MaxListHabits == 2

NextList ==
    \/ Tick
    \/ AddHabitUpTo(MaxListHabits)
    \/ DeleteHabit
    \/ ReorderHabits
    \/ ToggleToday
    \/ SubmitToday
    \/ SaveFails

SpecList == Init /\ [][NextList]_vars

----------------------------------------------------------------------------
(* A habit list read back by loadHabits from a storage that holds a date   *)
(* string that does not parse: JSON.parse and the migration accept any     *)
(* string in completedDates.                                               *)

LoadedDates ==
    {s \in UNION {[1..n -> {StartDay - 1, StartDay, BadDate}] : n \in 1..2} :
        /\ \E k \in DOMAIN s : s[k] = BadDate
        /\ \A j, k \in DOMAIN s : j # k => s[j] # s[k]}

InitLoaded ==
    /\ tz \in TimeZones
    /\ now \in (StartDay * DayLen)..(StartDay * DayLen + DayLen - 1)
    /\ \E dates \in LoadedDates :
           habits = <<[id |-> (StartDay - 1) * DayLen, type |-> "checkbox", target |-> 0,
                       createdAt |-> (StartDay - 1) * DayLen,
                       completedDates |-> dates, entries |-> <<>>]>>
    /\ storage = JSONStringify(habits)
    /\ graphToday = <<LocalDay(now, tz)>>
    /\ cardToday = ISODate(now)
    /\ hook = HookLoaded
    /\ closure = habits
    /\ InitSettings
    /\ InitHover
    /\ InitDialog

SpecLoaded == InitLoaded /\ [][Next]_vars

----------------------------------------------------------------------------
(* useHabits from construction: the mount effect, the load delayed by      *)
(* 100 ms, and mutations issued by handlers that close over the `habits`   *)
(* of the render they belong to.  No step of the hook reads the time zone, *)
(* so the startup runs in UTC; the clock starts one tick before midnight.  *)

MaxStartupHabits == 2    \* habits in the list during startup

\* a stored text that JSON.parse rejects
Unparseable == <<[corrupt |-> TRUE]>>

Parseable(text) == \A k \in 1..Len(text) : "id" \in DOMAIN text[k]

\* the migration of loadHabits: type: habit.type || 'checkbox',
\* entries: habit.entries || []
Migrate(habit) ==
    [id |-> habit.id,
     type |-> IF "type" \in DOMAIN habit THEN habit.type ELSE "checkbox",
     target |-> IF "target" \in DOMAIN habit THEN habit.target ELSE 0,
     createdAt |-> habit.createdAt,
     completedDates |-> habit.completedDates,
     entries |-> IF "entries" \in DOMAIN habit THEN habit.entries ELSE <<>>]

\* mutant: loadHabits without its finally block
loadHabitsNoFinally(mem, sto, ok) ==
    IF ok /\ Parseable(sto)
    THEN [habits |-> IF sto # <<>> THEN [k \in 1..Len(sto) |-> Migrate(sto[k])] ELSE mem,
          isLoading |-> FALSE]
    ELSE [habits |-> mem, isLoading |-> TRUE]

\* loadHabits on the memory mem and the storage sto: getItem (which throws
\* when ok = FALSE), JSON.parse, the migration, setHabits; the catch only
\* logs; finally setIsLoading(false).  An empty sto is a missing key or the
\* text '[]': before the load the memory can differ from [] only after a
\* successful save, which leaves a list in the storage, so both read alike.
loadHabits(mem, sto, ok) ==
    IF ok /\ Parseable(sto)
    THEN [habits |-> IF sto # <<>> THEN [k \in 1..Len(sto) |-> Migrate(sto[k])] ELSE mem,
          isLoading |-> FALSE]
    ELSE [habits |-> mem, isLoading |-> FALSE]

\* a habit saved by an earlier session, in the stored form
SavedHabit(id, type, dates) ==
    [id |-> id, type |-> type, createdAt |-> id, completedDates |-> dates,
     entries |-> <<>>]

\* what the storage can hold when the page starts: nothing, a list, a list
\* written before habits had a type and entries, a text that does not parse
StoredBefore ==
    {<<>>,
     <<SavedHabit((StartDay - 2) * DayLen, "checkbox", <<StartDay - 1>>)>>,
     <<SavedHabit((StartDay - 2) * DayLen, "number", <<>>),
       SavedHabit((StartDay - 1) * DayLen, "checkbox", <<>>)>>,
     <<[id |-> (StartDay - 2) * DayLen, createdAt |-> (StartDay - 2) * DayLen,
        completedDates |-> <<StartDay - 1>>]>>,
     Unparseable}

InitStartup ==
    /\ habits = <<>>
    /\ closure = <<>>
    /\ storage \in StoredBefore
    /\ tz = 0
    /\ now = StartDay * DayLen + DayLen - 1
    /\ graphToday = <<>>
    /\ cardToday = ISODate(now)
    /\ hook = HookConstructed
    /\ InitSettings
    /\ InitHover
    /\ InitDialog

\* what no step of the hook touches
HookFrame == UNCHANGED <<tz, graphToday, cardToday, settingsHook, settingsStorage,
                         hover, dialog>>

\* the first commit: setIsMounted(true); the render that follows runs the
\* second effect past its guard, which starts setTimeout(loadHabits, 100)
Mount ==
    /\ ~hook.unmounted
    /\ ~hook.isMounted
    /\ hook' = [hook EXCEPT !.isMounted = TRUE, !.timer = "pending"]
    /\ UNCHANGED <<habits, storage, now, closure>>
    /\ HookFrame

\* the timer fires: loadHabits
LoadHabits ==
    /\ hook.timer = "pending"
    /\ \E ok \in BOOLEAN :
           /\ habits' = loadHabits(habits, storage, ok).habits
           /\ hook' = [hook EXCEPT !.isLoading = loadHabits(habits, storage, ok).isLoading,
                                   !.timer = "none"]
    /\ UNCHANGED <<storage, now, closure>>
    /\ HookFrame

\* the component unmounts: the effect's cleanup, clearTimeout(timer)
Unmount ==
    /\ ~hook.unmounted
    /\ hook.isMounted
    /\ hook' = [hook EXCEPT !.unmounted = TRUE, !.timer = "none"]
    /\ UNCHANGED <<habits, storage, now, closure>>
    /\ HookFrame

\* the render after setHabits: later handlers close over the new list
Render ==
    /\ ~hook.unmounted
    /\ closure # habits
    /\ closure' = habits
    /\ UNCHANGED <<habits, storage, now, hook>>
    /\ HookFrame

\* time passes while a render may be pending
Elapse ==
    /\ now < (StartDay + 1) * DayLen
    /\ now' = now + 1
    /\ UNCHANGED <<habits, storage, hook, closure>>
    /\ HookFrame

\* saveHabits(newHabits) called by a handler: `if (!isMounted) return`, then
\* the write, which may throw
Issue(newHabits) ==
    /\ ~hook.unmounted
    /\ hook.isMounted
    /\ WithinBounds(newHabits)
    /\ \E ok \in BOOLEAN :
           /\ habits' = saveHabits(habits, storage, newHabits, ok).habits
           /\ storage' = saveHabits(habits, storage, newHabits, ok).storage
    /\ UNCHANGED <<now, hook, closure>>
    /\ HookFrame

\* the date a handler of a HabitCard passes: today
IssuedDates == {ISODate(now)}

\* the values a handler passes during startup
IssuedValues == {0, 12}

\* addHabit, computed from the closed-over list
IssueAddHabit ==
    /\ Len(closure) < MaxStartupHabits
    /\ \E type \in {"checkbox", "number"} :
       \E target \in (IF type = "number" THEN Targets ELSE {0}) :
           Issue(addHabit(closure, now, type, target))

\* toggleHabitCompletion, computed from the closed-over list
IssueToggle ==
    \E i \in 1..Len(closure) : \E date \in IssuedDates :
        /\ closure[i].type = "checkbox"
        /\ Issue(toggleHabitCompletion(closure, closure[i].id, date))

\* updateHabitEntry, computed from the closed-over list
IssueUpdateEntry ==
    \E i \in 1..Len(closure) : \E date \in IssuedDates : \E value \in IssuedValues :
        /\ closure[i].type = "number"
        /\ Issue(updateHabitEntry(closure, closure[i].id, date, value))

NextStartup ==
    \/ Mount
    \/ LoadHabits
    \/ Unmount
    \/ Render
    \/ Elapse
    \/ IssueAddHabit
    \/ IssueToggle
    \/ IssueUpdateEntry

SpecStartup == InitStartup /\ [][NextStartup]_vars

\* React runs a committed effect and the browser fires a started timer
SpecStartupLive ==
    /\ InitStartup
    /\ [][NextStartup]_vars
    /\ WF_vars(Mount)
    /\ WF_vars(LoadHabits)

----------------------------------------------------------------------------
(* useSettings: every component that calls the hook has a state of its     *)
(* own; all of them read and write the one storage key.                    *)

\* { ...base, ...over }
Spread(base, over) ==
    [cellSize |-> IF "cellSize" \in DOMAIN over THEN over.cellSize ELSE base.cellSize,
     hoverDelay |-> IF "hoverDelay" \in DOMAIN over THEN over.hoverDelay
                    ELSE base.hoverDelay,
     showStats |-> IF "showStats" \in DOMAIN over THEN over.showStats ELSE base.showStats]

\* a stored text that JSON.parse rejects
UnparseableSettings == [corrupt |-> TRUE]

\* the load effect on the stored text (getItem throws when ok = FALSE): the
\* state it sets, and whether that is the DEFAULT_SETTINGS object itself
loadSettings(text, ok) ==
    IF ok /\ text # Null /\ text # UnparseableSettings
    THEN [settings |-> Spread(DEFAULT_SETTINGS, text), isDefault |-> FALSE]
    ELSE [settings |-> DEFAULT_SETTINGS, isDefault |-> TRUE]

\* mutant: the save effect without its isLoading guard
saveEffectUnguarded(isLoading, settings, sto, ok) ==
    IF ok THEN [storage |-> settings, lastWrite |-> "ok"]
    ELSE [storage |-> sto, lastWrite |-> "threw"]

\* the save effect of a render that saw isLoading and settings: nothing
\* while loading, else setItem, whose exception (ok = FALSE) is only logged
saveEffect(isLoading, settings, sto, ok) ==
    IF isLoading THEN [storage |-> sto, lastWrite |-> "none"]
    ELSE IF ok THEN [storage |-> settings, lastWrite |-> "ok"]
    ELSE [storage |-> sto, lastWrite |-> "threw"]

\* updateSettings(newSettings) on the state prev
updateSettings(prev, newSettings) == Spread(prev, newSettings)

\* what the storage can hold when the page starts
StoredSettingsBefore ==
    {Null, UnparseableSettings, [cellSize |-> 30],
     [cellSize |-> 30, hoverDelay |-> 500, showStats |-> FALSE]}

\* the changes the SettingsDialog makes
SettingsChanges ==
    {[cellSize |-> 36], [hoverDelay |-> 0], [hoverDelay |-> 500],
     [showStats |-> TRUE], [showStats |-> FALSE]}

InitSettingsPage ==
    /\ habits = <<>>
    /\ storage = <<>>
    /\ tz = 0
    /\ now = StartDay * DayLen
    /\ graphToday = <<>>
    /\ cardToday = ISODate(now)
    /\ hook = HookLoaded
    /\ closure = habits
    /\ settingsHook = [i \in Instances |-> SettingsConstructed]
    /\ settingsStorage \in StoredSettingsBefore
    /\ InitHover
    /\ InitDialog

\* what no step of useSettings touches
SettingsFrame ==
    UNCHANGED <<habits, storage, now, tz, graphToday, cardToday, hook, closure,
                hover, dialog>>

\* the first commit of a component that uses the hook: the load effect,
\* then the save effect of the same render (which saw isLoading = true and
\* DEFAULT_SETTINGS); the state set by the load makes the save effect of
\* the next render due
SettingsMount(i) ==
    /\ ~settingsHook[i].mounted
    /\ \E okLoad, okSave \in BOOLEAN :
           LET loaded == loadSettings(settingsStorage, okLoad)
               saved == saveEffect(TRUE, DEFAULT_SETTINGS, settingsStorage, okSave)
           IN  /\ settingsHook' =
                      [settingsHook EXCEPT ![i] =
                          [mounted |-> TRUE, settings |-> loaded.settings,
                           isDefault |-> loaded.isDefault, isLoading |-> FALSE,
                           effect |-> TRUE, lastWrite |-> saved.lastWrite]]
               /\ settingsStorage' = saved.storage
    /\ SettingsFrame

\* the save effect of a render whose settings or isLoading changed
SettingsEffect(i) ==
    /\ settingsHook[i].effect
    /\ \E ok \in BOOLEAN :
           LET saved == saveEffect(settingsHook[i].isLoading, settingsHook[i].settings,
                                   settingsStorage, ok)
           IN  /\ settingsHook' = [settingsHook EXCEPT ![i].effect = FALSE,
                                                       ![i].lastWrite = saved.lastWrite]
               /\ settingsStorage' = saved.storage
    /\ SettingsFrame

\* SettingsDialog: a change of a control calls updateSettings, which always
\* sets a new object
UpdateSettings ==
    /\ settingsHook[DialogInstance].mounted
    /\ \E newSettings \in SettingsChanges :
           settingsHook' =
               [settingsHook EXCEPT
                   ![DialogInstance].settings = updateSettings(@, newSettings),
                   ![DialogInstance].isDefault = FALSE,
                   ![DialogInstance].effect = TRUE]
    /\ UNCHANGED settingsStorage
    /\ SettingsFrame

\* SettingsDialog.handleReset: setSettings(DEFAULT_SETTINGS); React skips
\* the render when the state is that object already
ResetSettings ==
    /\ settingsHook[DialogInstance].mounted
    /\ settingsHook' =
           IF settingsHook[DialogInstance].isDefault THEN settingsHook
           ELSE [settingsHook EXCEPT
                    ![DialogInstance].settings = DEFAULT_SETTINGS,
                    ![DialogInstance].isDefault = TRUE,
                    ![DialogInstance].effect = TRUE]
    /\ UNCHANGED settingsStorage
    /\ SettingsFrame

NextSettings ==
    \/ \E i \in Instances : SettingsMount(i)
    \/ \E i \in Instances : SettingsEffect(i)
    \/ UpdateSettings
    \/ ResetSettings

\* React runs the effect of every committed render
SpecSettings ==
    /\ InitSettingsPage
    /\ [][NextSettings]_vars
    /\ \A i \in Instances : WF_vars(SettingsEffect(i))

----------------------------------------------------------------------------
(* The tooltip of a HabitGraph.  hover.timers is the browser's table of    *)
(* started timers that have neither fired nor been cleared; hover.pointer  *)
(* is the cell the pointer is over (0: none).  The delay is the hoverDelay *)
(* of the graph's own useSettings instance.                                *)

MaxTimers == 3    \* setTimeout calls of one run
Cells == {1, 2}   \* the cells the pointer visits; a cell's tooltip text is its number

\* clearTimeout(id)
ClearTimeout(timers, id) == {t \in timers : t.id # id}

\* handleMouseEnter(day, event) on the state h with settings.hoverDelay
handleMouseEnter(h, day, hoverDelay) ==
    LET cleared == IF h.hoverTimeoutRef # 0
                   THEN ClearTimeout(h.timers, h.hoverTimeoutRef) ELSE h.timers
    IN  IF hoverDelay = 0
        THEN [h EXCEPT !.timers = cleared,
                       !.tooltip = [show |-> TRUE, content |-> day]]
        ELSE [h EXCEPT !.timers = cleared \cup {[id |-> h.nextTimer, content |-> day]},
                       !.hoverTimeoutRef = h.nextTimer,
                       !.nextTimer = h.nextTimer + 1]

\* mutant: handleMouseLeave that hides the tooltip but leaves the timer
handleMouseLeaveNoClear(h) ==
    [h EXCEPT !.tooltip.show = FALSE]

\* handleMouseLeave() on the state h
handleMouseLeave(h) ==
    IF h.hoverTimeoutRef # 0
    THEN [h EXCEPT !.timers = ClearTimeout(h.timers, h.hoverTimeoutRef),
                   !.hoverTimeoutRef = 0,
                   !.tooltip.show = FALSE]
    ELSE [h EXCEPT !.tooltip.show = FALSE]

\* what no step of the tooltip touches
HoverFrame ==
    UNCHANGED <<habits, storage, now, tz, graphToday, cardToday, hook, closure,
                settingsHook, settingsStorage, dialog>>

\* the pointer enters a cell
MouseEnter ==
    /\ settingsHook[GraphInstance].mounted
    /\ hover.nextTimer <= MaxTimers
    /\ \E day \in Cells \ {hover.pointer} :
           hover' = [handleMouseEnter(hover, day,
                                      settingsHook[GraphInstance].settings.hoverDelay)
                        EXCEPT !.pointer = day]
    /\ HoverFrame

\* the pointer leaves the cell it is over
MouseLeave ==
    /\ hover.pointer # 0
    /\ hover' = [handleMouseLeave(hover) EXCEPT !.pointer = 0]
    /\ HoverFrame

\* the delay of a started timer elapses: its callback shows the tooltip
TimerFires ==
    /\ \E t \in hover.timers :
           hover' = [hover EXCEPT !.timers = hover.timers \ {t},
                                  !.tooltip = [show |-> TRUE, content |-> t.content]]
    /\ HoverFrame

NextHover ==
    \/ SettingsMount(GraphInstance)
    \/ SettingsEffect(GraphInstance)
    \/ MouseEnter
    \/ MouseLeave
    \/ TimerFires

SpecHover == InitSettingsPage /\ [][NextHover]_vars

----------------------------------------------------------------------------
(* The edit-entry dialog of the (first) HabitCard: HabitCard keeps the     *)
(* date, value and completion status of the clicked cell in its own state  *)
(* and hands them to EditHabitEntryDialog as props.                        *)

\* what no step of the dialog touches; the list it saves is rendered before
\* the next event
DialogFrame ==
    /\ closure' = habits'
    /\ UNCHANGED <<now, tz, hook, settingsHook, settingsStorage, hover>>

\* HabitCard.handleCellClick(date, value, isCompleted)
OpenWith(date, value, isCompleted) ==
    [editDialogOpen |-> TRUE, selectedDate |-> date, selectedValue |-> value,
     selectedIsCompleted |-> isCompleted]

\* a click on a cell of the (memoized) grid opens the dialog
CellClickOpens ==
    /\ Len(habits) > 0
    /\ ~dialog.editDialogOpen
    /\ \E row \in ClickRows :
           LET grid == graphData(habits[1], graphToday[1], tz)
               event == handleCellClick(grid[GridWeeks - 1][row])
           IN  /\ event # Null
               /\ dialog' = OpenWith(event.date, event.value, event.isCompleted)
    /\ cardToday' = ISODate(now)
    /\ UNCHANGED <<habits, storage, graphToday>>
    /\ DialogFrame

\* the Today button: handleTodayClick
TodayClickOpens ==
    /\ Len(habits) > 0
    /\ ~dialog.editDialogOpen
    /\ dialog' = OpenWith(cardToday, getTodayEntry(habits[1], now),
                          isHabitCompletedToday(habits[1], now))
    /\ cardToday' = ISODate(now)
    /\ UNCHANGED <<habits, storage, graphToday>>
    /\ DialogFrame

\* a mutation issued by the open dialog: saveHabits, whose write may throw.
\* setHabits renders the card and recomputes its grid; a handler that
\* closes the dialog (closes = TRUE) renders the card as well
DialogMutation(newHabits, closes) ==
    /\ WithinBounds(newHabits)
    /\ \E ok \in BOOLEAN :
           /\ habits' = saveHabits(habits, storage, newHabits, ok).habits
           /\ storage' = saveHabits(habits, storage, newHabits, ok).storage
           /\ cardToday' = IF ok \/ closes THEN ISODate(now) ELSE cardToday
           /\ graphToday' = IF ok
                            THEN [k \in 1..Len(graphToday) |->
                                     IF k = 1 THEN LocalDay(now, tz) ELSE graphToday[k]]
                            ELSE graphToday

\* the button inside the dialog of a checkbox habit: onToggleCompletion(date);
\* the dialog stays open and HabitCard's selected state is not set
DialogToggleButton ==
    /\ dialog.editDialogOpen
    /\ habits[1].type = "checkbox"
    /\ DialogMutation(toggleHabitCompletion(habits, habits[1].id, dialog.selectedDate),
                      FALSE)
    /\ UNCHANGED dialog
    /\ DialogFrame

\* the footer's save button: EditHabitEntryDialog.handleSave
DialogSave ==
    /\ dialog.editDialogOpen
    /\ IF habits[1].type = "checkbox"
       THEN DialogMutation(toggleHabitCompletion(habits, habits[1].id,
                                                 dialog.selectedDate), TRUE)
       ELSE \E value \in Values :
                DialogMutation(updateHabitEntry(habits, habits[1].id,
                                                dialog.selectedDate, value), TRUE)
    /\ dialog' = [dialog EXCEPT !.editDialogOpen = FALSE]
    /\ DialogFrame

\* the footer's other button, rendered when isCompleted || currentValue > 0:
\* EditHabitEntryDialog.handleDelete
DialogDelete ==
    /\ dialog.editDialogOpen
    /\ dialog.selectedIsCompleted \/ dialog.selectedValue > 0
    /\ IF habits[1].type = "checkbox"
       THEN DialogMutation(toggleHabitCompletion(habits, habits[1].id,
                                                 dialog.selectedDate), TRUE)
       ELSE DialogMutation(updateHabitEntry(habits, habits[1].id,
                                            dialog.selectedDate, 0), TRUE)
    /\ dialog' = [dialog EXCEPT !.editDialogOpen = FALSE]
    /\ DialogFrame

\* the dialog is dismissed: onOpenChange(false)
DialogClose ==
    /\ dialog.editDialogOpen
    /\ dialog' = [dialog EXCEPT !.editDialogOpen = FALSE]
    /\ cardToday' = ISODate(now)
    /\ UNCHANGED <<habits, storage, graphToday>>
    /\ DialogFrame

NextDialog ==
    \/ Tick
    \/ AddHabit
    \/ CellClickOpens
    \/ TodayClickOpens
    \/ DialogToggleButton
    \/ DialogSave
    \/ DialogDelete
    \/ DialogClose

SpecDialog == Init /\ [][NextDialog]_vars

----------------------------------------------------------------------------
(* Properties *)

Habits == {habits[k] : k \in 1..Len(habits)}

CompletedSet(h) == {h.completedDates[k] : k \in 1..Len(h.completedDates)}

\* the dates of the entries that meet the target
QualifyingSet(h) ==
    {h.entries[k].date : k \in {j \in 1..Len(h.entries) :
                                    h.entries[j].value >= TargetOrOne(h)}}

MaxOf(S) == CHOOSE x \in S : \A y \in S : y <= x

\* the number of consecutive calendar days in S that end with day d
RECURSIVE RunLength(_, _)
RunLength(S, d) == IF d \in S THEN 1 + RunLength(S, d - 1) ELSE 0

\* the longest run of consecutive calendar days in S
LongestRun(S) == IF S = {} THEN 0 ELSE MaxOf({RunLength(S, d) : d \in S})

\* the current streak over the set S of calendar days, seen on day today
RunStreak(S, today) ==
    IF S = {} THEN 0
    ELSE IF today - MaxOf(S) > 1 THEN 0
    ELSE RunLength(S, MaxOf(S))

C2_CheckboxStreakIsRun ==
    \A h \in Habits :
        h.type = "checkbox" =>
            getHabitStreak(h, now, tz) = RunStreak(CompletedSet(h), LocalDay(now, tz))

RECURSIVE MapSetHoursZero(_, _)
MapSetHoursZero(s, z) ==
    IF s = <<>> THEN <<>> ELSE <<SetHoursZero(Head(s), z)>> \o MapSetHoursZero(Tail(s), z)

\* the current streak with every date of the history set to its local midnight
StreakByLocalDay(h, clock, z) ==
    LET parsed == IF h.type = "checkbox" THEN MapParse(h.completedDates)
                  ELSE MapEntryDate(MeetsTarget(h))
        sorted == SortDates(parsed, TRUE)
    IN  IF sorted = <<>> THEN 0
        ELSE StreakOfSorted(MapSetHoursZero(sorted, z), clock, z)

\* C3: every date of the history is compared with the expected day as a
\* local calendar day: the current streak equals the one computed with all
\* dates, not only the most recent, set to their local midnight
C3_EveryDateByLocalDay ==
    \A h \in Habits : getHabitStreak(h, now, tz) = StreakByLocalDay(h, now, tz)

\* the number habit of the scenario: target 10 and entries 12, 8, 15 on the
\* days d - 2, d - 1, d
ScenarioNumber(d) ==
    [id |-> 0, type |-> "number", target |-> 10 * Unit, createdAt |-> 0,
     completedDates |-> <<>>,
     entries |-> <<[date |-> d - 2, value |-> 12 * Unit],
                   [date |-> d - 1, value |-> 8 * Unit],
                   [date |-> d, value |-> 15 * Unit]>>]

C5_CheckboxAverageInUnitInterval ==
    \A h \in Habits :
        h.type = "checkbox" =>
            LET average == getHabitAverage(h, now)
            IN  average.num >= 0 /\ average.num <= average.den

EmptyHistory(h) == Len(h.completedDates) = 0 /\ Len(h.entries) = 0

\* C6: for a habit with an empty history the current streak, the longest
\* streak, the average, the total and the standard deviation are all 0
C6_EmptyHistoryAllZero ==
    \A h \in Habits :
        EmptyHistory(h) =>
            /\ getHabitStreak(h, now, tz) = 0
            /\ getLongestStreak(h) = 0
            /\ getHabitAverage(h, now).num = 0
            /\ getHabitAverage(h, now).den > 0
            /\ getHabitTotal(h) = 0
            /\ getHabitStandardDeviation(h).num = 0

\* C6 witness: a habit created more than a day ago whose history is empty
C6_Witness ==
    \E h \in Habits :
        /\ EmptyHistory(h)
        /\ now - h.createdAt > DayLen
        /\ getLongestStreak(h) = 0
        /\ getHabitAverage(h, now).num = 0

\* C7: the grid has exactly 52 columns of 7 cells, 364 in all, and the cell
\* at (week 51, row 6) holds the date of the `today` the grid was built for
C7_GridShapeAndLastCell ==
    \A i \in 1..Len(habits) :
        LET grid == graphData(habits[i], graphToday[i], tz)
        IN  /\ DOMAIN grid = 0..51
            /\ \A week \in DOMAIN grid : DOMAIN grid[week] = 0..6
            /\ Cardinality(DOMAIN grid) * Cardinality(DOMAIN grid[51]) = 364
            /\ grid[51][6] # Null
            /\ grid[51][6].date = graphToday[i]
            /\ grid[51][6].dateString = graphToday[i]
            /\ graphToday[i] = LocalDay(now, tz) =>
                   grid[51][6].dateString = LocalDay(now, tz)

\* C7 witness: a grid built on a later day than the one the clock started
\* on, with today in its last cell
C7_Witness ==
    \E i \in 1..Len(habits) :
        /\ graphToday[i] = LocalDay(now, tz)
        /\ LocalDay(now, tz) > StartDay
        /\ graphData(habits[i], graphToday[i], tz)[51][6].dateString = LocalDay(now, tz)

\* C8: a click on the last cell of the grid reports today's date string,
\* getTodayEntry and isHabitCompletedToday
C8_LastCellRoundTrip ==
    \A i \in 1..Len(habits) :
        handleCellClick(graphData(habits[i], graphToday[i], tz)[51][6])
            = [date |-> ISODate(now),
               value |-> getTodayEntry(habits[i], now),
               isCompleted |-> isHabitCompletedToday(habits[i], now)]

WithoutBadDate(h) ==
    [h EXCEPT !.completedDates = SelectSeq(@, LAMBDA d : d # BadDate)]

\* C9: a date string that does not parse is treated as absent: both streaks
\* of a habit that holds one equal those of the habit with it removed
C9_MalformedDateIsAbsent ==
    \A h \in Habits :
        Includes(h.completedDates, BadDate) =>
            /\ getHabitStreak(h, now, tz) = getHabitStreak(WithoutBadDate(h), now, tz)
            /\ getLongestStreak(h) = getLongestStreak(WithoutBadDate(h))

OtherEntries(es, date) == SelectSeq(es, LAMBDA e : e.date # date)

\* C11: no entry of a number habit has a value <= 0; updateHabitEntry with
\* a value <= 0 leaves no entry for the date, with a value > 0 leaves exactly
\* one entry for the date, holding that value; the entries of the other
\* dates are kept as they are
C11_NoNonPositiveEntry ==
    \A h \in Habits :
        /\ \A k \in 1..Len(h.entries) : h.entries[k].value > 0
        /\ h.type = "number" =>
               \A date \in {ISODate(now) - 1, ISODate(now)} : \A value \in Values :
                   LET es == UpdateEntries(h.entries, date, value)
                       forDate == SelectSeq(es, LAMBDA e : e.date = date)
                   IN  /\ OtherEntries(es, date) = OtherEntries(h.entries, date)
                       /\ value <= 0 => forDate = <<>>
                       /\ value > 0 => forDate = <<[date |-> date, value |-> value]>>
                       /\ value <= 0 /\ ~HasEntry(h, date) => es = h.entries

\* C11 witness: a number habit with two entries, one of them for today;
\* updateHabitEntry with a negative value removes today's and keeps the other
C11_Witness ==
    \E h \in Habits :
        /\ h.type = "number"
        /\ Len(h.entries) = 2
        /\ HasEntry(h, ISODate(now))
        /\ Len(UpdateEntries(h.entries, ISODate(now), -3)) = 1
        /\ ~HasEntry([h EXCEPT !.entries = UpdateEntries(@, ISODate(now), -3)],
                     ISODate(now))

\* C12: the list in storage is the list in memory, after every mutation and
\* whether the write succeeds or fails; a reorder that fails leaves both as
\* they were, one that succeeds leaves the reordered list in both
C12_StorageEqualsMemory ==
    /\ JSONParse(storage) = habits
    /\ \A reorderedHabits \in Reorderings(habits) : \A ok \in BOOLEAN :
           LET r == reorderHabits(habits, storage, reorderedHabits, ok)
           IN  /\ JSONParse(r.storage) = r.habits
               /\ ok => r.habits = reorderedHabits
               /\ ~ok => r.habits = habits /\ r.storage = storage

\* C12 witness: two habits, the later created first in the list, the same
\* in storage
C12_Witness ==
    /\ Len(habits) = 2
    /\ habits[1].id > habits[2].id
    /\ \E k \in 1..2 : Len(habits[k].completedDates) > 0
    /\ JSONParse(storage) = habits

\* the ids of a list, position by position
Ids(hs) == [k \in 1..Len(hs) |-> hs[k].id]

\* C13: no two habits of the list share an id, and toggleHabitCompletion
\* and updateHabitEntry leave the id at every position as it was
C13_IdsUniqueImmutable ==
    /\ \A j, k \in 1..Len(habits) : j # k => habits[j].id # habits[k].id
    /\ \A i \in 1..Len(habits) : \A value \in Values :
           /\ Ids(toggleHabitCompletion(habits, habits[i].id, cardToday)) = Ids(habits)
           /\ Ids(updateHabitEntry(habits, habits[i].id, cardToday, value)) = Ids(habits)

\* C14: every render derives the grid anew: after a step that renders (any
\* step but the passing of time) the last cell of every habit's grid holds
\* the day of the render, and every cell of the last column lies in the row
\* getDayRow gives its weekday for that render
C14_GridFollowsToday ==
    [][now' = now =>
          \A i \in 1..Len(habits') :
              LET grid == graphData(habits'[i], graphToday'[i], tz')
                  today == LocalDay(now', tz')
              IN  /\ grid[51][6].dateString = today
                  /\ \A row \in 0..6 :
                         getDayRow(grid[51][row].dayOfWeek, GetDay(today)) = row]_vars

\* the days that count toward a streak: the completed dates, or the dates
\* of the entries that meet the target
StreakDays(h) == IF h.type = "checkbox" THEN CompletedSet(h) ELSE QualifyingSet(h)

\* C15: the longest streak is 0 exactly when no day counts, and otherwise
\* the length of the longest run of days one day apart; a gap of 0 days or
\* of more than one day starts the count again at 1
C15_LongestStreakIsLongestRun ==
    /\ \A h \in Habits :
           /\ getLongestStreak(h) = LongestRun(StreakDays(h))
           /\ getLongestStreak(h) = 0 <=> StreakDays(h) = {}
           /\ StreakDays(h) # {} => getLongestStreak(h) >= 1
    /\ LET d == ISODate(now)
       IN  /\ LongestOfSorted(MapParse(<<d, d>>)) = 1
           /\ LongestOfSorted(MapParse(<<d - 1, d, d, d + 1>>)) = 2
           /\ LongestOfSorted(MapParse(<<d - 2, d - 1, d + 1>>)) = 2
           /\ LongestOfSorted(MapParse(<<d - 2, d>>)) = 1

\* C15 witness: a habit with three days that count, two of them one day
\* apart and the third two days away: the longest streak is 2
C15_Witness ==
    \E h \in Habits :
        /\ Cardinality(StreakDays(h)) = 3
        /\ \E d \in StreakDays(h) : StreakDays(h) = {d, d + 2, d + 3}
        /\ getLongestStreak(h) = 2

\* a habit without a target, given the target 1
WithTargetOne(h) == [h EXCEPT !.target = Unit]

SameFraction(a, b) == a.num * b.den = b.num * a.den

\* C16: a number habit without a target gives the same streaks, the same
\* isHabitCompletedToday, the same completion flag and colour in every cell
\* of the last column of the grid, and the same progress percentage as the
\* same habit with target 1
C16_MissingTargetIsOne ==
    \A i \in 1..Len(habits) :
        LET h == habits[i]
            h1 == WithTargetOne(h)
            grid == graphData(h, graphToday[i], tz)
            grid1 == graphData(h1, graphToday[i], tz)
        IN  h.type = "number" /\ h.target = 0 =>
                /\ getHabitStreak(h, now, tz) = getHabitStreak(h1, now, tz)
                /\ getLongestStreak(h) = getLongestStreak(h1)
                /\ isHabitCompletedToday(h, now) = isHabitCompletedToday(h1, now)
                /\ \A row \in 0..6 :
                       /\ grid[51][row].isCompleted = grid1[51][row].isCompleted
                       /\ getIntensityClass(h, grid[51][row].isCompleted,
                                            grid[51][row].value, TRUE)
                              = getIntensityClass(h1, grid1[51][row].isCompleted,
                                                  grid1[51][row].value, TRUE)
                /\ SameFraction(getProgressPercentage(h, now),
                                getProgressPercentage(h1, now))

\* the tier a colour class stands for: 0 is "no data"
TierOfClass(class) ==
    CASE class = "bg-gray-200" -> 0
      [] class = "bg-green-200" -> 1
      [] class = "bg-green-300" -> 2
      [] class = "bg-green-400" -> 3
      [] class = "bg-green-500" -> 4
      [] class = "bg-green-600" -> 5

\* the tier of value / target by the thresholds 0.5, 1, 1.5 and 2
TierOfRatio(value, target) ==
    IF value = 0 THEN 0
    ELSE IF 2 * value < target THEN 1
    ELSE IF value < target THEN 2
    ELSE IF 2 * value < 3 * target THEN 3
    ELSE IF value < 2 * target THEN 4
    ELSE 5

\* the tier getIntensityClass gives a cell of habit h holding value
Tier(h, value) == TierOfClass(getIntensityClass(h, value >= TargetOrOne(h), value, TRUE))

\* C17: for a number habit the tier of a cell is that of min(value / target,
\* 2) by the thresholds 0.5, 1, 1.5, 2, with value 0 the no-data tier, and
\* never goes down as the value goes up; for a checkbox habit the colour
\* tells only completed from not completed
C17_IntensityTiers ==
    \A i \in 1..Len(habits) :
        LET h == habits[i]
            grid == graphData(h, graphToday[i], tz)
            values == 0..(2 * TargetOrOne(h) + 1)
        IN  IF h.type = "number"
            THEN /\ \A v \in values : Tier(h, v) = TierOfRatio(v, TargetOrOne(h))
                 /\ \A v, w \in values : v <= w => Tier(h, v) <= Tier(h, w)
                 /\ \A row \in 0..6 :
                        Tier(h, grid[51][row].value)
                            = TierOfRatio(grid[51][row].value, TargetOrOne(h))
            ELSE /\ \A v \in Values : \A c \in BOOLEAN :
                        getIntensityClass(h, c, v, TRUE)
                            = IF c THEN "bg-green-500" ELSE "bg-gray-200"
                 /\ \A row \in 0..6 :
                        getIntensityClass(h, grid[51][row].isCompleted,
                                          grid[51][row].value, TRUE)
                            \in {"bg-green-500", "bg-gray-200"}

\* C17 witness: a number habit with target 10 whose grid shows, in its last
\* column, a cell of tier 1, a cell of tier 3 and a cell without data
C17_Witness ==
    \E i \in 1..Len(habits) :
        LET grid == graphData(habits[i], graphToday[i], tz)
        IN  /\ habits[i].type = "number" /\ habits[i].target = 10
            /\ {Tier(habits[i], grid[51][row].value) : row \in 4..6} = {0, 1, 3}

\* the month of the first cell of a column
ColumnMonth(grid, week) == GetMonth(grid[week][FirstValidRow(grid[week])].date)

\* the columns at which a month begins: the first, and every column whose
\* month differs from that of the column before
MonthStarts(grid) ==
    {week \in DOMAIN grid :
        week = 0 \/ ColumnMonth(grid, week) # ColumnMonth(grid, week - 1)}

\* C18: monthLabels has one label for every column at which a month begins,
\* in ascending order of column, each with that column as its index and the
\* month of that column as its name
C18_MonthLabelAtTransition ==
    \A i \in 1..Len(habits) :
        LET grid == graphData(habits[i], graphToday[i], tz)
            labels == monthLabels(grid)
        IN  /\ Len(labels) = Cardinality(MonthStarts(grid))
            /\ \A k \in 1..Len(labels) :
                   /\ labels[k].weekIndex \in MonthStarts(grid)
                   /\ labels[k].name = ColumnMonth(grid, labels[k].weekIndex)
                   /\ k > 1 => labels[k - 1].weekIndex < labels[k].weekIndex

RECURSIVE SumOfSquaredValues(_)
SumOfSquaredValues(es) ==
    IF es = <<>> THEN 0
    ELSE Head(es).value * Head(es).value + SumOfSquaredValues(Tail(es))

\* the population variance of the entry values, mean of the squares minus
\* square of the mean, as a fraction
PopulationVariance(h) ==
    LET n == Len(h.entries)
    IN  [num |-> n * SumOfSquaredValues(h.entries)
                     - SumValues(h.entries) * SumValues(h.entries),
         den |-> n * n]

C21_CellHoldsDayByColumn ==
    \A i \in 1..Len(habits) :
        LET grid == graphData(habits[i], graphToday[i], tz)
        IN  /\ \A week \in 0..51 : \A row \in 0..6 :
                   LET day == grid[week][row]
                   IN  /\ day # Null
                       /\ day.date = graphToday[i] - 363 + 7 * week + row
                       /\ day.dateString = day.date
            /\ grid[0][0].date = graphToday[i] - 363
            /\ grid[51][6].date = graphToday[i]

\* C21 witness: a grid built after the clock has passed a midnight, for a
\* habit with a completed day in its last column but one
C21_Witness ==
    \E i \in 1..Len(habits) :
        LET grid == graphData(habits[i], graphToday[i], tz)
        IN  /\ graphToday[i] > StartDay
            /\ grid[50][6].date = graphToday[i] - 7
            /\ grid[51][0].date = graphToday[i] - 6
            /\ \E row \in 0..5 : grid[51][row].isCompleted

\* C22: at every render each row of the grid holds one weekday, row 6 that
\* of the render's today, and getDayRow(d) lies in 0..6 and is the row
\* whose cells fall on weekday d
C22_RowsAreWeekdays ==
    [][now' = now =>
          \A i \in 1..Len(habits') :
              LET grid == graphData(habits'[i], graphToday'[i], tz')
                  todayDayOfWeek == GetDay(LocalDay(now', tz'))
              IN  /\ \A week \in {0, 1, 50, 51} : \A row \in 0..6 :
                         grid[week][row].dayOfWeek = grid[51][row].dayOfWeek
                  /\ grid[51][6].dayOfWeek = todayDayOfWeek
                  /\ \A d \in 0..6 :
                         /\ getDayRow(d, todayDayOfWeek) \in 0..6
                         /\ grid[51][getDayRow(d, todayDayOfWeek)].dayOfWeek = d]_vars

\* the same for a grid and a getDayRow of one and the same today, every
\* weekday of today included
RowsAreWeekdaysOfGridToday ==
    /\ \A t \in 0..6 : \A d \in 0..6 :
           /\ getDayRow(d, t) \in 0..6
           /\ (t + 1 + getDayRow(d, t)) % 7 = d
    /\ \A i \in 1..Len(habits) :
           LET grid == graphData(habits[i], graphToday[i], tz)
           IN  \A d \in 0..6 :
                   grid[51][getDayRow(d, GetDay(graphToday[i]))].dayOfWeek = d

\* the habits of a list other than those a call with habitId and type
\* selects are as they were, and so is each field of the selected ones but
\* the one named
OnlyFieldChanged(before, after, habitId, type, field) ==
    /\ Len(after) = Len(before)
    /\ \A k \in 1..Len(before) :
           IF before[k].id = habitId /\ before[k].type = type
           THEN \A f \in DOMAIN before[k] : f # field => after[k][f] = before[k][f]
           ELSE after[k] = before[k]

\* C23: toggleHabitCompletion changes nothing but the completedDates of
\* the checkbox habit with the id, updateHabitEntry nothing but the entries
\* of the number habit with the id; called on a habit of the other type
\* they leave the list as it is
C23_OnlyTheNamedHistoryChanges ==
    \A i \in 1..Len(habits) : \A date \in {cardToday - 1, cardToday} :
        LET id == habits[i].id
            toggled == toggleHabitCompletion(habits, id, date)
        IN  /\ OnlyFieldChanged(habits, toggled, id, "checkbox", "completedDates")
            /\ (\A k \in 1..Len(habits) :
                    habits[k].id = id => habits[k].type = "number") => toggled = habits
            /\ \A value \in Values :
                   LET updated == updateHabitEntry(habits, id, date, value)
                   IN  /\ OnlyFieldChanged(habits, updated, id, "number", "entries")
                       /\ (\A k \in 1..Len(habits) :
                               habits[k].id = id => habits[k].type = "checkbox")
                              => updated = habits

\* C23 witness: a checkbox habit and a number habit of different ids, both
\* with a history; a toggle of the first changes it and leaves the second
C23_Witness ==
    /\ Len(habits) = 2
    /\ habits[1].id # habits[2].id
    /\ habits[1].type = "checkbox" /\ Len(habits[1].completedDates) > 0
    /\ habits[2].type = "number" /\ Len(habits[2].entries) > 0
    /\ toggleHabitCompletion(habits, habits[1].id, cardToday)[1] # habits[1]
    /\ toggleHabitCompletion(habits, habits[1].id, cardToday)[2] = habits[2]
    /\ toggleHabitCompletion(habits, habits[2].id, cardToday) = habits

----------------------------------------------------------------------------
(* Startup of useHabits *)

\* the ids of the habits a stored text holds
StoredIds(text) ==
    IF Parseable(text) THEN {text[k].id : k \in 1..Len(text)} ELSE {}

\* the list a stored text stands for
PersistedList(text) ==
    IF Parseable(text) THEN [k \in 1..Len(text) |-> Migrate(text[k])] ELSE <<>>

\* C25: habits persisted before startup are never lost: while the delayed
\* load has not run, no step (a mutation issued after mount included)
\* replaces the stored list by one that omits a habit it held.
C25_PersistedHabitsSurviveStartup ==
    [][(hook.isLoading /\ ~hook.unmounted)
           => StoredIds(storage) \subseteq StoredIds(storage')]_vars

\* every list one mutation makes of the list hs
SingleMutations(hs) ==
    {addHabit(hs, now, type, target) :
         type \in {"checkbox", "number"}, target \in Targets}
    \cup {toggleHabitCompletion(hs, hs[i].id, date) :
              i \in 1..Len(hs), date \in IssuedDates}
    \cup {updateHabitEntry(hs, hs[i].id, date, value) :
              i \in 1..Len(hs), date \in IssuedDates, value \in IssuedValues}

\* C26: no update is lost: when a first mutation computed from the
\* rendered list has been saved and a second one, issued from the same
\* render, is saved as well, the persisted list reflects both: it is the
\* list persisted by the first with the second mutation applied.
C26_NoUpdateLost ==
    [][(/\ ~hook.isLoading
        /\ habits \in SingleMutations(closure)
        /\ habits = PersistedList(storage)
        /\ storage' # storage)
           => \E newHabits \in SingleMutations(PersistedList(storage)) :
                  storage' = JSONStringify(newHabits)]_vars

\* C27: while the component stays mounted isLoading eventually becomes
\* false and never becomes true again, whatever the storage holds; a load
\* of unparseable data leaves habits the empty list.
C27_LoadingEnds ==
    /\ <>(hook.unmounted \/ ~hook.isLoading)
    /\ [][~hook.isLoading => ~hook'.isLoading]_vars
    /\ [][(hook.timer = "pending" /\ ~hook'.isLoading /\ ~Parseable(storage))
              => habits' = <<>>]_vars

\* the load has run on a storage that holds unparseable data
C27_Witness ==
    /\ ~hook.isLoading
    /\ ~hook.unmounted
    /\ ~Parseable(storage)
    /\ habits = <<>>

----------------------------------------------------------------------------
(* useSettings *)

----------------------------------------------------------------------------
(* The tooltip *)

\* C29: at most one show-tooltip timer is pending at any time; a pending
\* timer belongs to the hover in progress, so a hover the pointer left
\* before the delay elapsed never shows the tooltip; and while the pointer
\* is over no cell (after any mouse-leave, until the next mouse-enter) the
\* tooltip is hidden and no timer is left that could show it.
C29_TooltipFollowsPointer ==
    /\ Cardinality(hover.timers) <= 1
    /\ \A t \in hover.timers : t.content = hover.pointer
    /\ hover.pointer = 0 => (~hover.tooltip.show /\ hover.timers = {})

\* with hoverDelay > 0 a timer was started and the pointer left before it
\* fired: the tooltip has never been shown
C29_Witness ==
    /\ settingsHook[GraphInstance].settings.hoverDelay > 0
    /\ hover.nextTimer > 1
    /\ hover.pointer = 0
    /\ hover.tooltip = [show |-> FALSE, content |-> 0]

----------------------------------------------------------------------------
(* The edit-entry dialog *)

\* C30: while the dialog is open for a checkbox habit and a date, the
\* isCompleted it is given equals the date's membership in completedDates,
\* also after the in-dialog toggle button was pressed; so a press of the
\* footer's save button while it is labelled 'Mark Complete' (isCompleted
\* false) whose write succeeds leaves the date completed.
C30_DialogStatusIsCurrent ==
    [][/\ (dialog'.editDialogOpen /\ habits'[1].type = "checkbox")
              => dialog'.selectedIsCompleted
                     = Includes(habits'[1].completedDates, dialog'.selectedDate)
       /\ (/\ dialog.editDialogOpen
           /\ ~dialog'.editDialogOpen
           /\ habits[1].type = "checkbox"
           /\ ~dialog.selectedIsCompleted
           /\ habits' # habits)
              => Includes(habits'[1].completedDates, dialog.selectedDate)]_vars

====
